---- MODULE Spec2Model ----
(***************************************************************************)
(* SQLocal (src/src/client.ts) and SQLocalProcessor (src/src/processor.ts) *)
(* as one state machine: the Client Facade, the transport between the two  *)
(* (a Worker channel, or the in-process processor whose postMessage and    *)
(* onmessage are plain synchronous calls), the Processor and the engine    *)
(* connection it owns.                                                     *)
(*                                                                         *)
(* Every handler of the source is an operator from a world record W (all   *)
(* the fields of both objects, the channels and the history) to the world  *)
(* after the call.  A JavaScript exception is the field W.threw; the       *)
(* choices the environment makes during a call (does the statement fail,   *)
(* does it invoke a user function, does the caller's handler issue a new   *)
(* request, ...) are the field W.o, drawn by the action with \E.           *)
(***************************************************************************)
EXTENDS Naturals, Sequences, FiniteSets

\* Bounds of the model.
MaxKeys == 3
MaxConfigs == 2
MaxConfigsInProcess == 3
MaxStmts == 2
MaxDestroyedCalls == 1
MaxInvocations == 2
MaxSavepoints == 1
MaxScripts == 1
MaxScriptInvocations == 1

FnNames == {"f"}
NoFn == "-"
Keys == 1..MaxKeys

VARIABLES
    \* ---- SQLocalProcessor (processor.ts:19-25)
    sqlite3,            \* the engine module has been loaded
    db,                 \* the connection: the id of the Config that opened it, 0 = undefined
    config,             \* [cfg, valid]: the settings last received
    queuedMessages,     \* messages buffered while there is no connection
    userFunctions,      \* names in the registry
    pendingInits,       \* init() calls suspended at `await sqlite3InitModule()`, by the settings they captured
    flushing,           \* control is inside flushQueue's loop
    \* ---- the engine
    openConns,          \* connections opened and not closed
    attached,           \* functions created on the current connection
    rows,               \* committed statements <<key, index>>, in commit order
    inTransaction,      \* the connection is inside a transaction (BEGIN or SAVEPOINT opened it)
    pending,            \* statements that ran inside that transaction, not committed yet
    savepoints,         \* the savepoint stack: for each savepoint, Len(pending) when it was set
    isTransactionSavepoint, \* the open transaction was started by a SAVEPOINT, not by BEGIN
    \* ---- the transport
    transport,          \* "worker" | "inproc"
    toProc,             \* Worker channel, Facade to Processor
    toClient,           \* Worker channel, Processor to Facade
    terminated,         \* the Worker was terminated and its listener removed
    \* ---- SQLocal (client.ts:18-28)
    databasePath,       \* this.databasePath: 0 = undefined, 1 = the file the Worker's connection is on, 2 = a path no connection is on
    isDestroyed,
    userCallbacks,      \* name -> the handler stored (the key of the call that stored it), 0 = none
    queriesInProgress,  \* keys with a PendingRequest
    nextKey,            \* the next fresh query key (nanoid)
    calls,              \* key -> the request that was sent with it
    outcome,            \* key -> "none" | "waiting" | "resolved" | "rejected"
    microtasks,         \* continuations of awaited calls, run when the current task ends
    \* ---- the environment and the history
    nConfigs,           \* Config messages posted so far
    nScripts,           \* requests dispatched so far whose SQL was a sequence of any statements or had the conflict clause FAIL
    dispatched,         \* keys in the order the Processor dispatched them to a handler
    emitted,            \* every message the Processor emitted, in order
    buffered,           \* keys the Processor pushed to queuedMessages on arrival
    unrouted,           \* keys whose terminal message was handled with no PendingRequest
    abandoned,          \* keys cleared from queriesInProgress by destroy()
    handlerLog,         \* invocations of caller handlers: [name, h, args]
    handlerAtSend,      \* key -> userCallbacks when the request was sent
    invoked,            \* key -> times the engine invoked a user function during its dispatch
    failedSetups,       \* Configs whose connection setup failed
    unhandled,          \* errors the Facade raised unhandled: keys, 0 for null
    raised,             \* keys during whose dispatch an engine call threw
    escaped,            \* keys whose handler (exec, createCallbackFunction, destroy) let an exception out
    requeued,           \* keys flushQueue took from the buffer and postMessage pushed back
    nested,             \* keys dispatched while the engine call of another dispatch was in progress
    batchWrites,        \* key -> the writing statements of the batch, once db.transaction returned
    retained,           \* keys that were in queuedMessages when a setup failed
    ready,              \* the init() that opened the connection ran to its end (line 83)
    destroyedErrors     \* calls refused with the client-destroyed error

vars == <<sqlite3, db, config, queuedMessages, userFunctions, pendingInits, flushing,
          openConns, attached, rows, inTransaction, pending, savepoints,
          isTransactionSavepoint,
          transport, toProc, toClient, terminated,
          databasePath, isDestroyed, userCallbacks, queriesInProgress, nextKey, calls, outcome,
          microtasks, nConfigs, nScripts, dispatched, emitted, buffered, unrouted, abandoned,
          handlerLog, handlerAtSend, invoked, failedSetups, unhandled, raised,
          escaped, requeued, nested, batchWrites, retained, ready, destroyedErrors>>

----------------------------------------------------------------------------
\* Messages (the tagged unions of ./types, as client.ts and processor.ts build them).

InputMessage(t, k, name, n) ==
    [type |-> t, key |-> k, name |-> name, n |-> n, cfg |-> 0, valid |-> FALSE]

ConfigMessage(c, v) ==
    [type |-> "config", key |-> 0, name |-> NoFn, n |-> 0, cfg |-> c, valid |-> v]

OutputMessage(t, k) ==
    [type |-> t, key |-> k, name |-> NoFn, args |-> 0]

CallbackMessage(name, a) ==
    [type |-> "callback", key |-> 0, name |-> name, args |-> a]

NoCall == [type |-> "none", name |-> NoFn, n |-> 0]

\* The SQL statements, by what they do to the rows and to the transaction state
\* of the connection: one that only reads, one that writes a row, BEGIN,
\* COMMIT (END), ROLLBACK, SAVEPOINT a, ROLLBACK TO a, RELEASE a.
Stmts == {"read", "write", "begin", "commit", "rollback",
          "savepoint", "rollbackTo", "release"}

\* What the environment decides during one call:
\*   stmts     the statements of the SQL string of a Query, or of the batch
\*   failAt    the statement that fails when it runs (a constraint), 0 = none
\*   failMode  the conflict clause of the failing statement: "abort" undoes
\*             the statement, "fail" keeps what it wrote before the conflict,
\*             "rollback" ends the open transaction
\*   journal   the failing statement runs with a statement journal, so that
\*             "abort" also undoes what ran on the connection during it
\*   inv, at, times   the function the statements at the places `at` call,
\*             each so many times
\*   late      a writing statement calls the function after it wrote (in its
\*             RETURNING clause), not while it computes what to write
\*   reissue, nestedOk   the caller's handler issues a statement; it succeeds
\*   attachOk, openOk, cloneOk, fileOk   db.createFunction, new DB,
\*             the structured clone, the file system calls succeed
\*   script    the SQL is counted in nScripts (several statements, or the
\*             conflict clause FAIL)
Quiet ==
    [script |-> FALSE, stmts |-> <<"read">>, failAt |-> 0, failMode |-> "abort", journal |-> TRUE,
     inv |-> NoFn, at |-> {}, times |-> 0, late |-> FALSE,
     reissue |-> FALSE, nestedOk |-> TRUE,
     attachOk |-> TRUE, openOk |-> TRUE, cloneOk |-> TRUE, fileOk |-> TRUE]

\* The statement a caller's handler issues from inside a callback: one that
\* writes a row, or fails.
NestedOracle(o) ==
    [Quiet EXCEPT !.stmts = <<"write">>, !.failAt = IF o.nestedOk THEN 0 ELSE 1]

World(o) ==
    [sqlite3 |-> sqlite3, db |-> db, config |-> config, queuedMessages |-> queuedMessages,
     userFunctions |-> userFunctions, pendingInits |-> pendingInits, flushing |-> flushing,
     openConns |-> openConns, attached |-> attached, rows |-> rows,
     inTransaction |-> inTransaction, pending |-> pending, savepoints |-> savepoints,
     isTransactionSavepoint |-> isTransactionSavepoint,
     databasePath |-> databasePath,
     transport |-> transport, toProc |-> toProc, toClient |-> toClient,
     terminated |-> terminated,
     isDestroyed |-> isDestroyed, userCallbacks |-> userCallbacks,
     queriesInProgress |-> queriesInProgress, nextKey |-> nextKey, calls |-> calls,
     outcome |-> outcome, microtasks |-> microtasks,
     nConfigs |-> nConfigs, nScripts |-> nScripts, dispatched |-> dispatched, emitted |-> emitted,
     buffered |-> buffered, unrouted |-> unrouted, abandoned |-> abandoned,
     handlerLog |-> handlerLog, handlerAtSend |-> handlerAtSend, invoked |-> invoked,
     failedSetups |-> failedSetups, unhandled |-> unhandled, raised |-> raised,
     escaped |-> escaped,
     requeued |-> requeued, nested |-> nested, batchWrites |-> batchWrites,
     retained |-> retained, ready |-> ready,
     destroyedErrors |-> destroyedErrors,
     threw |-> FALSE, inEngine |-> 0, o |-> o]

SetWorld(W) ==
    /\ sqlite3' = W.sqlite3
    /\ db' = W.db
    /\ config' = W.config
    /\ queuedMessages' = W.queuedMessages
    /\ userFunctions' = W.userFunctions
    /\ pendingInits' = W.pendingInits
    /\ flushing' = W.flushing
    /\ openConns' = W.openConns
    /\ attached' = W.attached
    /\ rows' = W.rows
    /\ inTransaction' = W.inTransaction
    /\ pending' = W.pending
    /\ savepoints' = W.savepoints
    /\ isTransactionSavepoint' = W.isTransactionSavepoint
    /\ databasePath' = W.databasePath
    /\ transport' = W.transport
    /\ toProc' = W.toProc
    /\ toClient' = W.toClient
    /\ terminated' = W.terminated
    /\ isDestroyed' = W.isDestroyed
    /\ userCallbacks' = W.userCallbacks
    /\ queriesInProgress' = W.queriesInProgress
    /\ nextKey' = W.nextKey
    /\ calls' = W.calls
    /\ outcome' = W.outcome
    /\ microtasks' = W.microtasks
    /\ nConfigs' = W.nConfigs
    /\ nScripts' = W.nScripts
    /\ dispatched' = W.dispatched
    /\ emitted' = W.emitted
    /\ buffered' = W.buffered
    /\ unrouted' = W.unrouted
    /\ abandoned' = W.abandoned
    /\ handlerLog' = W.handlerLog
    /\ handlerAtSend' = W.handlerAtSend
    /\ invoked' = W.invoked
    /\ failedSetups' = W.failedSetups
    /\ unhandled' = W.unhandled
    /\ raised' = W.raised
    /\ escaped' = W.escaped
    /\ requeued' = W.requeued
    /\ nested' = W.nested
    /\ batchWrites' = W.batchWrites
    /\ retained' = W.retained
    /\ ready' = W.ready
    /\ destroyedErrors' = W.destroyedErrors

Caught(W) == [W EXCEPT !.threw = FALSE]
Throw(W) == [W EXCEPT !.threw = TRUE]

\* The engine throws during the dispatch of key k.
EngineThrow(W, k) == [W EXCEPT !.threw = TRUE, !.raised = @ \cup {k}]

\* Bind(x, F) is F(x) with x evaluated once and for all, before F uses it.
Bind(x, F(_)) == CHOOSE r \in {F(v) : v \in {x}} : TRUE

RECURSIVE postMessage(_, _)

----------------------------------------------------------------------------
\* The transport.  worker.ts hands every message the Worker receives to the
\* processor's postMessage and posts every message the processor emits back to
\* the main thread; both directions are FIFO channels.

\* Worker.postMessage clones the message (structured clone) and queues the clone;
\* a message that cannot be cloned (a function among the parameters, a Promise
\* for the statements) makes it throw DataCloneError and nothing is queued.
WorkerPost(W, m) ==
    IF W.o.cloneOk THEN [W EXCEPT !.toProc = Append(@, m)] ELSE Throw(W)

WorkerEmit(W, msg) == [W EXCEPT !.toClient = Append(@, msg)]

\* `this.processor.postMessage(...)` of the Facade: a Worker queues the message,
\* the in-process SQLocalProcessor handles it before the call returns.
processorPostMessage(W, m) ==
    IF W.transport = "worker" THEN WorkerPost(W, m) ELSE postMessage(W, m)

----------------------------------------------------------------------------
\* SQLocal (client.ts)

\* createQuery without the isDestroyed test of lines 94-98.
createQuery_unchecked(W, m) ==
    Bind([W EXCEPT !.nextKey = @ + 1,
                   !.calls[W.nextKey] = [type |-> m.type, name |-> m.name, n |-> m.n],
                   !.handlerAtSend[W.nextKey] = W.userCallbacks],
         LAMBDA W1 :
    Bind(processorPostMessage(W1, [m EXCEPT !.key = W.nextKey]),
         LAMBDA W2 :
            IF W2.threw
            THEN W2
            ELSE [W2 EXCEPT !.queriesInProgress = @ \cup {W.nextKey},
                            !.outcome[W.nextKey] = "waiting"]))

\* createQuery: refuse when destroyed, draw a key, post, and only then create the
\* promise whose executor stores [resolve, reject] under the key.  An exception out
\* of postMessage leaves before the promise exists.
createQuery(W, m) ==
    IF W.isDestroyed
    THEN Throw([W EXCEPT !.destroyedErrors = @ + 1])
    ELSE Bind([W EXCEPT !.nextKey = @ + 1,
                        !.calls[W.nextKey] = [type |-> m.type, name |-> m.name, n |-> m.n],
                        !.handlerAtSend[W.nextKey] = W.userCallbacks],
              LAMBDA W1 :
         Bind(processorPostMessage(W1, [m EXCEPT !.key = W.nextKey]),
              LAMBDA W2 :
                 IF W2.threw
                 THEN W2
                 ELSE [W2 EXCEPT !.queriesInProgress = @ \cup {W.nextKey},
                                 !.outcome[W.nextKey] = "waiting"]))

\* An async API function around createQuery: what createQuery throws rejects the
\* promise the function returned.
AsyncCall(W, m) ==
    Bind(createQuery(W, m),
         LAMBDA R :
            IF R.threw /\ ~W.isDestroyed
            THEN [R EXCEPT !.threw = FALSE, !.outcome[W.nextKey] = "rejected"]
            ELSE Caught(R))

\* sql -> exec -> createQuery({type: 'query'})
sql(W) == AsyncCall(W, InputMessage("query", 0, NoFn, 0))

\* transaction -> createQuery({type: 'transaction', statements})
transaction(W, n) == AsyncCall(W, InputMessage("transaction", 0, NoFn, n))

\* createCallbackFunction, up to its await
client_createCallbackFunction(W, name) ==
    AsyncCall(W, InputMessage("function", 0, name, 0))

\* createCallbackFunction, after its await resolved: the handler is stored
client_createCallbackFunction_resume(W, k) ==
    [W EXCEPT !.userCallbacks[W.calls[k].name] = k]

\* destroy, up to its await
client_destroy(W) == AsyncCall(W, InputMessage("destroy", 0, NoFn, 0))

\* destroy that rejects the requests still pending instead of only clearing them.
client_destroy_resume_rejecting(W) ==
    [W EXCEPT !.terminated = (@ \/ W.transport = "worker"),
              !.abandoned = @ \cup W.queriesInProgress,
              !.outcome = [k \in Keys |->
                              IF k \in W.queriesInProgress THEN "rejected" ELSE @[k]],
              !.queriesInProgress = {},
              !.userCallbacks = [n \in FnNames |-> 0],
              !.isDestroyed = TRUE]

\* destroy, after its await resolved
client_destroy_resume(W) ==
    [W EXCEPT !.terminated = (@ \/ W.transport = "worker"),
              !.abandoned = @ \cup W.queriesInProgress,
              !.queriesInProgress = {},
              !.userCallbacks = [n \in FnNames |-> 0],
              !.isDestroyed = TRUE]

\* overwriteDatabaseFile (lines 206-221).  Without a databasePath it throws
\* (207-211).  Otherwise it awaits the file system: the directory, the file
\* handle, a writable stream, truncate, write, close.  Each of them may reject,
\* and what is written to the stream reaches the file when close() resolves
\* (line 220): then the file has the content handed in, and the statements
\* committed through the connection are gone with the old content.  When the
\* path is not that of the connection's database, the database is as before.
\* No message is sent, and neither isDestroyed nor the connection is looked at.
overwriteDatabaseFile(W) ==
    IF W.databasePath = 0
    THEN Throw(W)
    ELSE IF ~W.o.fileOk
         THEN Throw(W)
         ELSE IF W.databasePath = 1 THEN [W EXCEPT !.rows = <<>>] ELSE W

\* The continuation of the call that awaits key k.
Resume(W, k) ==
    CASE W.calls[k].type = "function" -> client_createCallbackFunction_resume(W, k)
      [] W.calls[k].type = "destroy" -> client_destroy_resume(W)
      [] OTHER -> W

RECURSIVE RunMicrotasks(_)
RunMicrotasks(W) ==
    IF W.microtasks = <<>>
    THEN W
    ELSE Bind(Resume([W EXCEPT !.microtasks = Tail(@)], Head(W.microtasks)),
              LAMBDA W1 : RunMicrotasks(W1))

\* processMessageEvent, lines 67-73: the PendingRequest is settled and removed.
\* A resolved promise schedules the continuation of the call awaiting it.
Settle(W, msg) ==
    IF msg.type = "error"
    THEN [W EXCEPT !.outcome[msg.key] = "rejected",
                   !.queriesInProgress = @ \ {msg.key}]
    ELSE [W EXCEPT !.outcome[msg.key] = "resolved",
                   !.microtasks = IF W.calls[msg.key].type \in {"function", "destroy"}
                                  THEN Append(@, msg.key) ELSE @,
                   !.queriesInProgress = @ \ {msg.key}]

\* The caller's handler: it is called with the arguments, and may issue a
\* statement of its own through sql.
userCallback(W, msg) ==
    Bind([W EXCEPT !.handlerLog =
              Append(@, [name |-> msg.name, h |-> W.userCallbacks[msg.name],
                         args |-> msg.args])],
         LAMBDA W1 :
            IF W.o.reissue /\ W1.nextKey <= MaxKeys
            THEN Bind(sql([W1 EXCEPT !.o = NestedOracle(@)]),
                      LAMBDA R : [R EXCEPT !.o = W.o])
            ELSE W1)

processMessageEvent(W, msg) ==
    IF msg.type \in {"success", "data", "error"}
    THEN IF msg.key # 0 /\ msg.key \in W.queriesInProgress
         THEN Settle(W, msg)
         ELSE IF msg.type = "error"
              THEN [W EXCEPT !.unrouted = IF msg.key # 0 THEN @ \cup {msg.key} ELSE @,
                             !.unhandled = Append(@, msg.key),
                             !.threw = TRUE]
              ELSE [W EXCEPT !.unrouted = IF msg.key # 0 THEN @ \cup {msg.key} ELSE @]
    ELSE IF W.userCallbacks[msg.name] # 0
         THEN userCallback(W, msg)
         ELSE W

----------------------------------------------------------------------------
\* SQLocalProcessor (processor.ts)

emitMessage(W, msg) ==
    Bind([W EXCEPT !.emitted = Append(@, msg)],
         LAMBDA W1 :
            IF W1.transport = "worker"
            THEN WorkerEmit(W1, msg)
            ELSE processMessageEvent(W1, msg))

\* The relay handler createCallbackFunction builds (lines 182-188).
relay(W, name, a) == emitMessage(W, CallbackMessage(name, a))

\* The engine runs a statement that may call a function created on the connection.
engineInvoke(W, inv, k) ==
    IF inv \in W.attached
    THEN Bind(relay([W EXCEPT !.inEngine = k], inv, k),
              LAMBDA R : [R EXCEPT !.invoked[k] = @ + 1, !.inEngine = W.inEngine])
    ELSE W

\* The function is called once for every evaluation of the statement.
RECURSIVE engineInvokes(_, _, _, _)
engineInvokes(W, inv, k, t) ==
    IF t = 0
    THEN W
    ELSE Bind(engineInvoke(W, inv, k),
              LAMBDA R : engineInvokes(R, inv, k, t - 1))

\* COMMIT, and ROLLBACK: the open transaction ends, with its savepoints.
commitAll(W) ==
    [W EXCEPT !.rows = @ \o W.pending, !.pending = <<>>, !.inTransaction = FALSE,
              !.savepoints = <<>>, !.isTransactionSavepoint = FALSE]

rollbackAll(W) ==
    [W EXCEPT !.pending = <<>>, !.inTransaction = FALSE,
              !.savepoints = <<>>, !.isTransactionSavepoint = FALSE]

\* The connection is closed: a transaction left open on it is rolled back.
dbClose(W) ==
    Bind(rollbackAll(W),
         LAMBDA W1 : [W1 EXCEPT !.openConns = @ \ {W.db}, !.db = 0, !.attached = {},
                                !.ready = FALSE])

\* What statement i of request k wrote goes to the open transaction, or is
\* committed at once when there is none.
writeRow(W, k, i) ==
    IF W.inTransaction
    THEN [W EXCEPT !.pending = Append(@, <<k, i>>)]
    ELSE [W EXCEPT !.rows = Append(@, <<k, i>>)]

\* The rows without the one statement i of request k wrote.
unwritten(rs, k, i) == SelectSeq(rs, LAMBDA r : r # <<k, i>>)

\* The engine calls the function statement i names, if it names one.
statementInvokes(W, k, i) ==
    IF i \in W.o.at THEN engineInvokes(W, W.o.inv, k, W.o.times) ELSE W

\* A statement that reads or writes rows, the i-th of request k.  The engine
\* calls the functions the statement names while it runs, before the statement
\* writes or (RETURNING) after it; a caller's handler reached in-process may
\* run a statement of its own on the connection then.  A statement that fails
\* has written a row and called the functions, in either order, when it meets
\* the conflict and throws.  A failing statement that only reads undoes
\* nothing.  A failing statement that writes keeps what it wrote before the
\* conflict ("fail"), or is undone: outside a transaction its implicit
\* transaction is rolled back, and with it what ran on the connection during
\* the statement; inside a transaction it is undone alone ("abort"; with a
\* statement journal what ran during it is undone too) or ends the transaction
\* ("rollback").  A statement that succeeds in writing has its row committed
\* at once outside a transaction and with the COMMIT inside.
plainStatement(W, k, i) ==
    IF W.o.stmts[i] = "read"
    THEN Bind(statementInvokes(W, k, i),
              LAMBDA W1 : IF W.o.failAt = i THEN EngineThrow(W1, k) ELSE W1)
    ELSE Bind(IF W.o.late
              THEN Bind(writeRow(W, k, i), LAMBDA W1 : statementInvokes(W1, k, i))
              ELSE Bind(statementInvokes(W, k, i), LAMBDA W1 : writeRow(W1, k, i)),
              LAMBDA W2 :
                 IF W.o.failAt # i
                 THEN W2
                 ELSE CASE W.o.failMode = "fail" -> EngineThrow(W2, k)
                        [] ~W.inTransaction -> EngineThrow([W2 EXCEPT !.rows = W.rows], k)
                        [] W.o.failMode = "rollback" -> EngineThrow(rollbackAll(W2), k)
                        [] W.o.journal -> EngineThrow([W2 EXCEPT !.pending = W.pending], k)
                        [] OTHER -> EngineThrow([W2 EXCEPT !.pending = unwritten(@, k, i)], k))

\* One statement of the SQL the connection is given, the i-th of request k.
\* BEGIN opens a transaction unless one is open; COMMIT (END) and ROLLBACK end
\* the open one and throw when there is none.  SAVEPOINT sets a savepoint, and
\* opens a transaction when none is open; ROLLBACK TO undoes what ran since the
\* last savepoint and leaves transaction and savepoint in place; RELEASE removes
\* the last savepoint, and commits when that was the savepoint that opened the
\* transaction; both throw without a savepoint.
execStatement(W, k, i) ==
    CASE W.o.stmts[i] = "begin" ->
           IF W.inTransaction
           THEN EngineThrow(W, k)
           ELSE [W EXCEPT !.inTransaction = TRUE]
      [] W.o.stmts[i] = "commit" ->
           IF W.inTransaction THEN commitAll(W) ELSE EngineThrow(W, k)
      [] W.o.stmts[i] = "rollback" ->
           IF W.inTransaction THEN rollbackAll(W) ELSE EngineThrow(W, k)
      [] W.o.stmts[i] = "savepoint" ->
           [W EXCEPT !.isTransactionSavepoint = IF W.inTransaction THEN @ ELSE TRUE,
                     !.inTransaction = TRUE,
                     !.savepoints = Append(@, Len(W.pending))]
      [] W.o.stmts[i] = "rollbackTo" ->
           IF W.savepoints = <<>>
           THEN EngineThrow(W, k)
           ELSE [W EXCEPT !.pending = SubSeq(@, 1, W.savepoints[Len(W.savepoints)])]
      [] W.o.stmts[i] = "release" ->
           IF W.savepoints = <<>>
           THEN EngineThrow(W, k)
           ELSE IF Len(W.savepoints) = 1 /\ W.isTransactionSavepoint
                THEN commitAll(W)
                ELSE [W EXCEPT !.savepoints = SubSeq(@, 1, Len(@) - 1)]
      [] OTHER -> plainStatement(W, k, i)

\* The statements from the i-th on run in order, up to the first that throws.
RECURSIVE execStatements(_, _, _)
execStatements(W, k, i) ==
    IF W.threw \/ i > Len(W.o.stmts)
    THEN W
    ELSE Bind(execStatement(W, k, i),
              LAMBDA W1 : execStatements(W1, k, i + 1))

\* this.db.exec(...) of a Query (lines 137-143) runs the SQL string it is given,
\* one statement or several, on the connection, which keeps its transaction
\* state between requests.
dbExec(W, m) ==
    execStatements([W EXCEPT !.nScripts = IF W.o.script THEN @ + 1 ELSE @], m.key, 1)

\* this.db.transaction(...) (lines 159-166): BEGIN, which throws when the
\* connection is inside a transaction already; then the statements run in
\* order and COMMIT follows.  When a statement or the COMMIT throws, ROLLBACK
\* runs and the exception is rethrown; ROLLBACK and COMMIT throw themselves
\* when a statement of the batch has ended the transaction.
dbTransaction(W, m) ==
    IF W.inTransaction
    THEN EngineThrow(W, m.key)
    ELSE Bind(execStatements([W EXCEPT !.inTransaction = TRUE,
                                       !.nScripts = IF W.o.script THEN @ + 1 ELSE @],
                             m.key, 1),
              LAMBDA S :
                 IF S.threw
                 THEN IF S.inTransaction THEN Throw(rollbackAll(S)) ELSE S
                 ELSE IF S.inTransaction
                      THEN Bind(commitAll(S),
                                LAMBDA C :
                                   [C EXCEPT !.batchWrites[m.key] =
                                       Cardinality({i \in 1..Len(W.o.stmts) :
                                                       W.o.stmts[i] = "write"})])
                      ELSE EngineThrow(S, m.key))

\* exec that emits the Data message before it runs the statement.
exec_answersFirst(W, m) ==
    IF W.db = 0
    THEN W
    ELSE Bind(emitMessage(W, OutputMessage("data", m.key)),
              LAMBDA E :
                 Caught(IF m.type = "query" THEN dbExec(E, m) ELSE dbTransaction(E, m)))

exec(W, m) ==
    IF W.db = 0
    THEN W
    ELSE Bind(IF m.type = "query" THEN dbExec(W, m) ELSE dbTransaction(W, m),
              LAMBDA R :
         Bind(IF R.threw THEN R ELSE emitMessage(R, OutputMessage("data", m.key)),
              LAMBDA T :
                 IF T.threw
                 THEN Bind(Caught(T),
                           LAMBDA C : emitMessage(C, OutputMessage("error", m.key)))
                 ELSE T))

\* initUserFunction: db.createFunction, which may throw.
initUserFunction(W, name, k) ==
    IF W.db = 0
    THEN W
    ELSE IF W.o.attachOk
         THEN [W EXCEPT !.attached = @ \cup {name}]
         ELSE EngineThrow(W, k)

\* createCallbackFunction without the test of lines 190-199.
createCallbackFunction_noDuplicateTest(W, m) ==
    Bind(initUserFunction(W, m.name, m.key),
         LAMBDA A :
    Bind(IF A.threw
         THEN A
         ELSE Bind([A EXCEPT !.userFunctions = @ \cup {m.name}],
                   LAMBDA B : emitMessage(B, OutputMessage("success", m.key))),
         LAMBDA S :
            IF S.threw
            THEN Bind(Caught(S),
                      LAMBDA C : emitMessage(C, OutputMessage("error", m.key)))
            ELSE S))

createCallbackFunction(W, m) ==
    IF m.name \in W.userFunctions
    THEN emitMessage(W, OutputMessage("error", m.key))
    ELSE Bind(initUserFunction(W, m.name, m.key),
              LAMBDA A :
         Bind(IF A.threw
              THEN A
              ELSE Bind([A EXCEPT !.userFunctions = @ \cup {m.name}],
                        LAMBDA B : emitMessage(B, OutputMessage("success", m.key))),
              LAMBDA S :
                 IF S.threw
                 THEN Bind(Caught(S),
                           LAMBDA C : emitMessage(C, OutputMessage("error", m.key)))
                 ELSE S))

destroy(W, m) ==
    Bind(dbClose(W),
         LAMBDA W1 : emitMessage(W1, OutputMessage("success", m.key)))

\* flushQueue: control enters the loop; FlushStep is one iteration of it.
flushQueue(W) == [W EXCEPT !.flushing = (W.queuedMessages # <<>>)]

\* this.userFunctions.forEach(this.initUserFunction), line 82
RECURSIVE initUserFunctions(_, _)
initUserFunctions(W, S) ==
    IF S = {} \/ W.threw
    THEN W
    ELSE Bind(CHOOSE x \in S : TRUE,
              LAMBDA n :
         Bind(initUserFunction(W, n, 0),
              LAMBDA W1 : initUserFunctions(W1, S \ {n})))

\* init, the catch block (lines 70-80)
initCatch(W, c) ==
    Bind([W EXCEPT !.failedSetups = @ \cup {c},
                   !.retained = @ \cup {W.queuedMessages[i].key : i \in 1..Len(W.queuedMessages)}],
         LAMBDA W1 :
    Bind(emitMessage(W1, OutputMessage("error", 0)),
         LAMBDA E :
            IF E.threw
            THEN E
            ELSE dbClose(E)))

\* init without lines 50-53: the connection there is is not closed.
initConnect_keepsPrevious(W, c) ==
    IF W.o.openOk
    THEN Bind([rollbackAll(W) EXCEPT !.db = c, !.openConns = @ \cup {c},
                                     !.attached = {}, !.ready = FALSE],
              LAMBDA W2 :
         Bind(initUserFunctions(W2, W2.userFunctions),
              LAMBDA W3 :
                 IF W3.threw THEN W3 ELSE flushQueue([W3 EXCEPT !.ready = TRUE])))
    ELSE initCatch(W, c)

\* init, lines 50-83: with the engine module at hand, close the connection there
\* is, open one for the settings captured, re-create the functions, drain the buffer.
initConnect(W, c) ==
    Bind(dbClose(W),
         LAMBDA W1 :
            IF W.o.openOk
            THEN Bind([W1 EXCEPT !.db = c, !.openConns = @ \cup {c}],
                      LAMBDA W2 :
                 Bind(initUserFunctions(W2, W2.userFunctions),
                      LAMBDA W3 :
                         IF W3.threw THEN W3 ELSE flushQueue([W3 EXCEPT !.ready = TRUE])))
            ELSE initCatch(W1, c))

\* init, up to the await of line 47
init(W) ==
    IF ~W.config.valid
    THEN W
    ELSE IF ~W.sqlite3
         THEN [W EXCEPT !.pendingInits = @ \cup {W.config.cfg}]
         ELSE initConnect(W, W.config.cfg)

\* init, resumed after the await: the module loaded, or loading it threw
initResume(W, c, loadOk) ==
    Bind([W EXCEPT !.pendingInits = @ \ {c}, !.sqlite3 = (@ \/ loadOk)],
         LAMBDA W1 : IF loadOk THEN initConnect(W1, c) ELSE initCatch(W1, c))

editConfig(W, m) ==
    Bind([W EXCEPT !.config = [cfg |-> m.cfg, valid |-> m.valid]],
         LAMBDA W1 : init(W1))

\* The switch of postMessage hands the message to its handler.
Dispatching(W, m) ==
    [W EXCEPT !.dispatched = Append(@, m.key),
              !.nested = IF W.inEngine # 0 THEN @ \cup {m.key} ELSE @]

postMessage(W, m) ==
    IF W.db = 0 /\ m.type # "config"
    THEN [W EXCEPT !.queuedMessages = Append(@, m), !.buffered = @ \cup {m.key},
                   !.requeued = IF W.flushing THEN @ \cup {m.key} ELSE @]
    ELSE Bind(IF m.type = "config" THEN W ELSE Dispatching(W, m),
              LAMBDA D :
                 IF m.type = "config"
                 THEN editConfig(D, m)
                 ELSE Bind(CASE m.type \in {"query", "transaction"} -> exec(D, m)
                             [] m.type = "function" -> createCallbackFunction(D, m)
                             [] m.type = "destroy" -> destroy(D, m),
                           LAMBDA H :
                              IF H.threw
                              THEN [H EXCEPT !.escaped = @ \cup {m.key}]
                              ELSE H))

----------------------------------------------------------------------------
\* The state machine.

\* What the statements that run on the connection may do: call no function, or
\* call one created on the connection; the caller's handler then may issue a
\* statement of its own (reissue), which in its turn commits or fails
\* (nestedOk), as long as the Facade has a key left for it.  Over a Worker the
\* handler runs in the Facade's thread, and decides there.
InvChoices ==
    {<<NoFn, 0, FALSE, TRUE>>} \cup
    {c \in attached \X (1..MaxInvocations) \X BOOLEAN \X BOOLEAN :
        IF transport = "inproc" /\ nextKey <= MaxKeys
        THEN c[3] \/ c[4]
        ELSE ~c[3] /\ c[4]}

\* The statements at the places `at` call the function c[1], c[2] times each.
Invoking(o, c, at) ==
    [o EXCEPT !.inv = c[1], !.times = c[2], !.reissue = c[3], !.nestedOk = c[4],
              !.at = IF c[1] = NoFn THEN {} ELSE at]

\* A writing statement that calls a function calls it before it writes or
\* after (RETURNING), also when it fails later on.  The two orders leave
\* different rows when the caller's handler writes during the call;
\* otherwise one of them is taken.
Late(o) ==
    IF /\ o.reissue /\ o.nestedOk
       /\ userCallbacks[o.inv] # 0
       /\ \E i \in o.at : o.stmts[i] = "write"
    THEN {o, [o EXCEPT !.late = TRUE]}
    ELSE {o}

\* The statements of s that read or write rows.
PlainAt(s) == {i \in 1..Len(s) : s[i] \in {"read", "write"}}

\* The places among the statements s that call the function, for c[2] calls
\* each and up to max calls in all.
Places(s, c, max) ==
    IF c[1] = NoFn
    THEN {{}}
    ELSE {at \in SUBSET PlainAt(s) : at # {} /\ Cardinality(at) * c[2] <= max}

\* SQL beyond one statement with the default conflict clause is counted in
\* nScripts.  A behaviour has up to MaxScripts requests with such SQL, and has
\* them while the Config of the constructor is the only one: it has either
\* these or a further Config.
ScriptsLeft == nScripts < MaxScripts /\ nConfigs = 1

\* How a writing statement may fail, inside a transaction or outside: with
\* the conflict clause ABORT (the default), FAIL or ROLLBACK.
FailuresWithin(inTx) ==
    {<<"abort", TRUE>>} \cup
    (IF ScriptsLeft THEN {<<"fail", TRUE>>} ELSE {}) \cup
    (IF inTx THEN {<<"rollback", TRUE>>} ELSE {}) \cup
    (IF inTx /\ transport = "inproc" /\ attached # {}
     THEN {<<"abort", FALSE>>} ELSE {})

Failures == FailuresWithin(inTransaction)

Failing(o, i, f) ==
    [o EXCEPT !.failAt = i, !.failMode = f[1], !.journal = f[2],
              !.script = @ \/ f[1] = "fail"]

\* The statement of s that fails and how: none, one that reads, or one that
\* writes, which may be inside a transaction when it runs.
FailuresOf(s) ==
    {<<0, <<"abort", TRUE>>>>}
    \cup {<<i, <<"abort", TRUE>>>> : i \in {j \in PlainAt(s) : s[j] = "read"}}
    \cup ({j \in PlainAt(s) : s[j] = "write"} \X FailuresWithin(TRUE))

\* The SQL of n statements the model hands to the connection: every sequence of
\* statements that sets no more savepoints than the bound leaves room for.
Scripts(n) ==
    {s \in [1..n -> Stmts] :
        Cardinality({i \in 1..n : s[i] = "savepoint"}) + Len(savepoints) <= MaxSavepoints}

\* The first statement of SQL throws before anything ran when the connection,
\* inside a transaction or not, is in no state for it (see execStatement).
ThrowsAtOnce(st, inTx) ==
    CASE st = "begin" -> inTx
      [] st \in {"commit", "rollback"} -> ~inTx
      [] st \in {"rollbackTo", "release"} -> savepoints = <<>>
      [] OTHER -> FALSE

\* The statements of s that are never run: those after a first statement that
\* throws at once, and those after the statement fa that fails.
NeverRun(s, fa, inTx) ==
    IF ThrowsAtOnce(s[1], inTx)
    THEN 2..Len(s)
    ELSE IF fa = 0 THEN {} ELSE (fa + 1)..Len(s)

\* SQL that differs only in statements never run has the same run: the one
\* whose statements never run read, call nothing and do not fail stands for
\* all of them.
StandsForItself(s, fa, at, inTx) ==
    /\ ThrowsAtOnce(s[1], inTx) => fa = 0
    /\ \A j \in NeverRun(s, fa, inTx) : s[j] = "read" /\ j \notin at

\* SQL of several statements of any kind, given to a connection that is inside
\* a transaction or not: it runs to its end or a statement that reads or
\* writes fails, and its statements may call a function.
ScriptOracles(lens, inTx) ==
    IF ScriptsLeft
    THEN UNION {UNION {UNION {UNION {
            Late(Invoking(Failing([Quiet EXCEPT !.script = TRUE, !.stmts = s], f[1], f[2]),
                          c, at)) :
                at \in {a \in Places(s, c, MaxScriptInvocations) :
                           StandsForItself(s, f[1], a, inTx)}} :
              c \in InvChoices} : f \in FailuresOf(s)} :
            s \in UNION {Scripts(len) : len \in lens}}
    ELSE {}

\* The outcomes open to the engine calls of a dispatch.  A Query is one
\* statement: one that reads or writes, succeeds or fails (a write with one of
\* the conflict clauses), and may call a function before it writes or after,
\* or one of the other kinds; or it is SQL of up to MaxStmts statements.  A
\* Transaction of n statements is n writing statements, of which one may fail
\* and those that run may call a function; or any n statements.  On a
\* connection inside a transaction already, the BEGIN of a Transaction throws
\* and none of its statements is run, whatever they are.
Oracles(type, n) ==
    CASE type = "query" ->
           {Invoking([Quiet EXCEPT !.stmts = <<"read">>, !.failAt = fa], c, {1}) :
               fa \in 0..1, c \in InvChoices}
           \cup UNION {Late(Invoking([Quiet EXCEPT !.stmts = <<"write">>], c, {1})) :
                         c \in InvChoices}
           \cup UNION {Late(Invoking(Failing([Quiet EXCEPT !.stmts = <<"write">>], 1, f),
                                     c, {1})) :
                         f \in Failures, c \in InvChoices}
           \cup {[Quiet EXCEPT !.stmts = s] :
                    s \in {t \in Scripts(1) : t[1] \notin {"read", "write"}}}
           \cup ScriptOracles(2..MaxStmts, inTransaction)
      [] type = "transaction" ->
           IF inTransaction
           THEN {Quiet}
           ELSE UNION {UNION {UNION {
                    Late(Invoking([Quiet EXCEPT !.stmts = [i \in 1..n |-> "write"],
                                                !.failAt = fa], c, at)) :
                       at \in {a \in Places([i \in 1..n |-> "write"], c, MaxInvocations) :
                                  fa = 0 \/ \A j \in a : j <= fa}} :
                     fa \in 0..n} : c \in InvChoices}
                \cup ScriptOracles({n}, TRUE)
      [] type = "function" ->
           {[Quiet EXCEPT !.attachOk = a] : a \in BOOLEAN}
      [] type = "config" ->
           {[Quiet EXCEPT !.openOk = FALSE]} \cup
           {[Quiet EXCEPT !.attachOk = a] :
               a \in IF userFunctions = {} THEN {TRUE} ELSE BOOLEAN}
      [] OTHER -> {Quiet}

\* The choices open to a call of the Facade: the engine acts during the call only
\* when the processor is in-process and holds a connection.
\* Over a Worker the call only posts the message, which can be cloned or not
\* (the parameters of sql are any[], the statements of transaction whatever the
\* builder returned).
CallOracles(type, n) ==
    IF isDestroyed
    THEN {Quiet}
    ELSE IF transport = "inproc"
         THEN IF db # 0 THEN Oracles(type, n) ELSE {Quiet}
         ELSE IF type \in {"query", "transaction"}
              THEN {Quiet, [Quiet EXCEPT !.cloneOk = FALSE]}
              ELSE {Quiet}

\* The choices open while the processor handles message m: none when it only
\* buffers m or suspends at the await.
ReceiveOracles(m) ==
    IF m.type = "config"
    THEN IF m.valid /\ sqlite3 THEN Oracles("config", 0) ELSE {Quiet}
    ELSE IF db = 0 THEN {Quiet} ELSE Oracles(m.type, m.n)

\* The end of a task: an exception nobody caught is reported, and the
\* continuations of the promises resolved run, unless the in-process processor
\* is still inside flushQueue on the same stack.
Finish(W) ==
    IF W.transport = "inproc" /\ W.flushing
    THEN Caught(W)
    ELSE RunMicrotasks(Caught(W))

Blank(t) ==
    [sqlite3 |-> FALSE, db |-> 0, config |-> [cfg |-> 0, valid |-> FALSE],
     queuedMessages |-> <<>>, userFunctions |-> {}, pendingInits |-> {},
     flushing |-> FALSE, openConns |-> {}, attached |-> {}, rows |-> <<>>,
     inTransaction |-> FALSE, pending |-> <<>>, savepoints |-> <<>>,
     isTransactionSavepoint |-> FALSE, databasePath |-> 0,
     transport |-> t, toProc |-> <<>>, toClient |-> <<>>, terminated |-> FALSE,
     isDestroyed |-> FALSE, userCallbacks |-> [n \in FnNames |-> 0],
     queriesInProgress |-> {}, nextKey |-> 1, calls |-> [k \in Keys |-> NoCall],
     outcome |-> [k \in Keys |-> "none"], microtasks |-> <<>>,
     nConfigs |-> 1, nScripts |-> 0, dispatched |-> <<>>, emitted |-> <<>>, buffered |-> {},
     unrouted |-> {}, abandoned |-> {}, handlerLog |-> <<>>,
     handlerAtSend |-> [k \in Keys |-> [n \in FnNames |-> 0]],
     invoked |-> [k \in Keys |-> 0], failedSetups |-> {}, unhandled |-> <<>>,
     raised |-> {}, escaped |-> {}, requeued |-> {}, nested |-> {},
     batchWrites |-> [k \in Keys |-> 0], retained |-> {},
     ready |-> FALSE,
     destroyedErrors |-> 0, threw |-> FALSE, inEngine |-> 0, o |-> Quiet]

\* new SQLocalProcessor(): its init() finds the empty config invalid and returns.
\* new SQLocal(config): the processor is wired and the Config message posted.
\* The settings are valid for the processor's init when they name a database
\* path or the storage 'local' / 'session'; with the latter the constructor
\* takes the in-process branch, so only a Worker can be handed invalid settings
\* ('' or {} or {storage: 'opfs'}).
\* this.databasePath is the databasePath of the settings, whatever the storage
\* (lines 33-34): the file the Worker's connection is on when the settings are
\* valid for a Worker; undefined ({} or {storage: 'opfs'}) or the empty path
\* ('', which names no file) when they are not; and for an in-process processor,
\* which keeps its database in localStorage or sessionStorage, undefined or a
\* path the connection is not on.
Constructed(t, valid, path) ==
    Bind(init([Blank(t) EXCEPT !.databasePath = path]),
         LAMBDA P : processorPostMessage(P, ConfigMessage(1, valid)))

Constructions ==
    {<<"worker", TRUE, 1>>, <<"worker", FALSE, 0>>, <<"worker", FALSE, 2>>,
     <<"inproc", TRUE, 0>>}

\* The variables are the fields of W.
IsWorld(W) ==
    /\ sqlite3 = W.sqlite3
    /\ db = W.db
    /\ config = W.config
    /\ queuedMessages = W.queuedMessages
    /\ userFunctions = W.userFunctions
    /\ pendingInits = W.pendingInits
    /\ flushing = W.flushing
    /\ openConns = W.openConns
    /\ attached = W.attached
    /\ rows = W.rows
    /\ inTransaction = W.inTransaction
    /\ pending = W.pending
    /\ savepoints = W.savepoints
    /\ isTransactionSavepoint = W.isTransactionSavepoint
    /\ databasePath = W.databasePath
    /\ transport = W.transport
    /\ toProc = W.toProc
    /\ toClient = W.toClient
    /\ terminated = W.terminated
    /\ isDestroyed = W.isDestroyed
    /\ userCallbacks = W.userCallbacks
    /\ queriesInProgress = W.queriesInProgress
    /\ nextKey = W.nextKey
    /\ calls = W.calls
    /\ outcome = W.outcome
    /\ microtasks = W.microtasks
    /\ nConfigs = W.nConfigs
    /\ nScripts = W.nScripts
    /\ dispatched = W.dispatched
    /\ emitted = W.emitted
    /\ buffered = W.buffered
    /\ unrouted = W.unrouted
    /\ abandoned = W.abandoned
    /\ handlerLog = W.handlerLog
    /\ handlerAtSend = W.handlerAtSend
    /\ invoked = W.invoked
    /\ failedSetups = W.failedSetups
    /\ unhandled = W.unhandled
    /\ raised = W.raised
    /\ escaped = W.escaped
    /\ requeued = W.requeued
    /\ nested = W.nested
    /\ batchWrites = W.batchWrites
    /\ retained = W.retained
    /\ ready = W.ready
    /\ destroyedErrors = W.destroyedErrors

Init == \E W \in {Constructed(c[1], c[2], c[3]) : c \in Constructions} : IsWorld(W)

\* The Facade's thread is free to make a call: the in-process processor is not
\* inside flushQueue, and the model has a key (or a refusal) left for it.
CanCall ==
    /\ ~(transport = "inproc" /\ flushing)
    /\ IF isDestroyed THEN destroyedErrors < MaxDestroyedCalls ELSE nextKey <= MaxKeys

Sql ==
    /\ CanCall
    /\ \E o \in CallOracles("query", 0) :
       \E W \in {World(o)} :
       \E R \in {Finish(sql(W))} : SetWorld(R)

Transaction ==
    /\ CanCall
    /\ \E o \in CallOracles("transaction", MaxStmts) :
       \E W \in {World(o)} :
       \E R \in {Finish(transaction(W, MaxStmts))} : SetWorld(R)

CreateCallbackFunction ==
    /\ CanCall
    /\ \E name \in FnNames :
       \E o \in CallOracles("function", 0) :
       \E W \in {World(o)} :
       \E R \in {Finish(client_createCallbackFunction(W, name))} : SetWorld(R)

Destroy ==
    /\ CanCall
    /\ \E W \in {World(Quiet)} :
       \E R \in {Finish(client_destroy(W))} : SetWorld(R)

\* A further Config message reaches the processor through the same transport.
\* Its settings differ from those before it and name the same database.  A
\* behaviour has further Configs up to the bound or SQL of several statements
\* (ScriptOracles), not both.
ReconfigureWithin(max) ==
    /\ nConfigs < max
    /\ nScripts = 0
    /\ ~terminated
    /\ ~(transport = "inproc" /\ flushing)
    /\ \E valid \in BOOLEAN :
       \E o \in (IF transport = "inproc" /\ valid /\ sqlite3
                 THEN Oracles("config", 0) ELSE {Quiet}) :
       \E W \in {[World(o) EXCEPT !.nConfigs = @ + 1]} :
       \E R \in {Finish(processorPostMessage(W, ConfigMessage(W.nConfigs, valid)))} :
          SetWorld(R)

Reconfigure == ReconfigureWithin(MaxConfigs)

\* A call of overwriteDatabaseFile made before comes to its end.  The call
\* tests no field that changes and writes none, the awaited file system calls
\* before close() change nothing the processor or the connection sees, and
\* between them the events of both threads go on: the step is the moment
\* close() resolves.  A call that throws at its guard, a call one of whose
\* awaited promises rejects, and a call that finds nothing committed in the
\* file or writes a file the connection is not on leave every variable as it
\* is: they are no step.
OverwriteDatabaseFile ==
    /\ databasePath = 1
    /\ rows # <<>>
    /\ \E W \in {World(Quiet)} :
       \E R \in {Finish(overwriteDatabaseFile(W))} : SetWorld(R)

\* The Worker's message event: worker.ts calls the processor's postMessage.
WorkerReceive ==
    /\ transport = "worker"
    /\ ~terminated
    /\ ~flushing
    /\ toProc # <<>>
    /\ \E o \in ReceiveOracles(Head(toProc)) :
       \E W \in {[World(o) EXCEPT !.toProc = Tail(@)]} :
       \E R \in {Finish(postMessage(W, Head(toProc)))} : SetWorld(R)

\* An init() suspended at the await of the engine module resumes.
InitResume ==
    /\ ~terminated
    /\ ~flushing
    /\ \E c \in pendingInits :
       \E loadOk \in BOOLEAN :
       \E o \in (IF loadOk THEN Oracles("config", 0) ELSE {Quiet}) :
       \E W \in {World(o)} :
       \E R \in {Finish(initResume(W, c, loadOk))} : SetWorld(R)

\* One iteration of flushQueue's loop: shift a message and post it again.  An
\* exception out of postMessage leaves the loop.
FlushStep ==
    /\ flushing
    /\ ~terminated
    /\ \E o \in ReceiveOracles(Head(queuedMessages)) :
       \E W \in {[World(o) EXCEPT !.queuedMessages = Tail(@)]} :
       \E P \in {postMessage(W, Head(queuedMessages))} :
       \E R \in {Finish([P EXCEPT !.flushing = (~P.threw /\ P.queuedMessages # <<>>)])} :
          SetWorld(R)

\* The Facade's message event over a Worker: processMessageEvent, then the
\* continuations it released.
ClientReceive ==
    /\ transport = "worker"
    /\ ~terminated
    /\ toClient # <<>>
    /\ \E re \in (IF Head(toClient).type = "callback" /\ userCallbacks[Head(toClient).name] # 0
                  THEN BOOLEAN ELSE {FALSE}) :
       \E W \in {[World([Quiet EXCEPT !.reissue = re]) EXCEPT !.toClient = Tail(@)]} :
       \E R \in {Finish(processMessageEvent(W, Head(toClient)))} : SetWorld(R)

Next ==
    \/ Sql
    \/ Transaction
    \/ CreateCallbackFunction
    \/ Destroy
    \/ Reconfigure
    \/ OverwriteDatabaseFile
    \/ WorkerReceive
    \/ InitResume
    \/ FlushStep
    \/ ClientReceive

Spec == Init /\ [][Next]_vars

\* The in-process transport alone, where a Facade call and the processor's
\* handling of it are one step, explored with one Config more.  The settings
\* here name a databasePath beside the storage ({storage: 'local',
\* databasePath: 'x'}); those of the in-process construction of Spec name
\* none.  overwriteDatabaseFile then passes its guard and writes a file the
\* connection is not on: it leaves every variable as it is.
InProcessInit == \E W \in {Constructed("inproc", TRUE, 2)} : IsWorld(W)

ReconfigureInProcess == ReconfigureWithin(MaxConfigsInProcess)

InProcessNext ==
    \/ Sql
    \/ Transaction
    \/ CreateCallbackFunction
    \/ Destroy
    \/ ReconfigureInProcess
    \/ InitResume
    \/ FlushStep

InProcessSpec == InProcessInit /\ [][InProcessNext]_vars

----------------------------------------------------------------------------
\* The properties.

Range(s) == {s[i] : i \in 1..Len(s)}

Pos(s, x) == CHOOSE i \in 1..Len(s) : s[i] = x

Terminal == {"data", "success", "error"}

\* The places in the log of emitted messages of the messages of type t with key k.
Emitted(t, k) == {i \in 1..Len(emitted) : emitted[i].type = t /\ emitted[i].key = k}

TerminalsFor(k) ==
    {i \in 1..Len(emitted) : emitted[i].type \in Terminal /\ emitted[i].key = k}

\* The terminal message of key k has been emitted and handed to processMessageEvent.
Delivered(k) ==
    /\ TerminalsFor(k) # {}
    /\ \A i \in 1..Len(toClient) :
          ~(toClient[i].type \in Terminal /\ toClient[i].key = k)

\* The Callback messages in s that carry the arguments a.
CallbacksFor(s, a) ==
    Cardinality({i \in 1..Len(s) : s[i].type = "callback" /\ s[i].args = a})

HandlerCalls(a) ==
    Cardinality({i \in 1..Len(handlerLog) : handlerLog[i].args = a})

\* The committed statements of request k, in commit order.
RowsOf(k) == SelectSeq(rows, LAMBDA r : r[1] = k)

NewTerminalKeys ==
    {emitted'[i].key : i \in {j \in (Len(emitted) + 1)..Len(emitted') :
                                 emitted'[j].type \in Terminal /\ emitted'[j].key # 0}}

NewDispatched == {dispatched'[i] : i \in (Len(dispatched) + 1)..Len(dispatched')}

\* C1: whenever the terminal message of a key the Facade sent has been handled,
\* its PendingRequest was in queriesInProgress at that moment and the call is
\* resolved or rejected; no key gets a second terminal message.
C1_TerminalFindsPendingRequest ==
    \A k \in Keys :
       /\ Cardinality(TerminalsFor(k)) <= 1
       /\ Delivered(k) => (k \notin unrouted /\ outcome[k] \in {"resolved", "rejected"})

\* C2: the messages buffered while there was no connection are dispatched in
\* arrival order once setup succeeded (a message taken from the buffer is
\* dispatched, so the connection is there as long as the buffer is drained),
\* and before every message that arrived later and was handled live.
C2_BufferedDispatchedFirstInOrder ==
    /\ flushing => db # 0
    /\ \A i, j \in Range(dispatched) :
          (i \in buffered /\ j \in buffered /\ i < j)
             => Pos(dispatched, i) < Pos(dispatched, j)
    /\ \A i \in buffered : \A j \in Range(dispatched) :
          (j \notin buffered /\ i < j)
             => (i \in Range(dispatched) /\ Pos(dispatched, i) < Pos(dispatched, j))

\* The rows of s are in the order of their statements.
InStatementOrder(s) == \A i, j \in 1..Len(s) : i < j => s[i][2] < s[j][2]

C3_State ==
    \A k \in Range(dispatched) :
       calls[k].type = "transaction" =>
          /\ \A i \in 1..Len(pending) : pending[i][1] # k
          /\ InStatementOrder(RowsOf(k))
          /\ IF k \in raised
             THEN /\ RowsOf(k) = <<>>
                  /\ Cardinality(Emitted("error", k)) = 1
                  /\ Emitted("data", k) = {}
                  /\ Delivered(k) => outcome[k] = "rejected"
             ELSE /\ Len(RowsOf(k)) \in {0, batchWrites[k]}
                  /\ Emitted("data", k) # {}
                  /\ Emitted("error", k) = {}
                  /\ Delivered(k) => outcome[k] = "resolved"

C3_Step ==
    \A k \in NewDispatched :
       (calls'[k].type = "transaction" /\ k \notin raised')
          => Len(SelectSeq(rows', LAMBDA r : r[1] = k)) = batchWrites'[k]

\* C3: the dispatch of a transaction either commits every writing statement of
\* the batch, in order and together, and emits Data, and the call resolves; or
\* it leaves no statement committed, emits one Error with its key and no Data,
\* and the call rejects.  At no later time is a part of the batch committed.
C3_TransactionAllOrNothing == []C3_State /\ [][C3_Step]_vars

\* A RegisterFunction for a name already in the registry is dispatched in this step.
DuplicateDispatched(k) ==
    /\ k \in NewDispatched
    /\ calls'[k].type = "function"
    /\ calls'[k].name \in userFunctions

C4_Step ==
    \A k \in Keys :
       DuplicateDispatched(k) =>
          /\ userFunctions' = userFunctions
          /\ attached' = attached
          /\ \E i \in (Len(emitted) + 1)..Len(emitted') :
                emitted'[i].type = "error" /\ emitted'[i].key = k
          /\ \A i \in (Len(emitted) + 1)..Len(emitted') :
                emitted'[i].key = k => emitted'[i].type = "error"

C4_State ==
    /\ \A k \in Keys :
          (calls[k].type = "function" /\ Emitted("error", k) # {} /\ Delivered(k))
             => (outcome[k] = "rejected" /\ \A n \in FnNames : userCallbacks[n] # k)
    /\ \A n \in FnNames :
          /\ Cardinality({k \in Keys : calls[k].type = "function" /\ calls[k].name = n
                                        /\ Emitted("success", k) # {}}) <= 1
          /\ userCallbacks[n] # 0 =>
                (calls[userCallbacks[n]].name = n /\ Emitted("success", userCallbacks[n]) # {})
    /\ \A i \in 1..Len(handlerLog) :
          /\ handlerLog[i].h # 0
          /\ calls[handlerLog[i].h].name = handlerLog[i].name
          /\ Emitted("success", handlerLog[i].h) # {}

\* C4: a RegisterFunction whose name is already in the registry gets an Error
\* with its key and leaves the registry and the connection's functions as they
\* were; its call rejects and stores no handler; a name has one successful
\* registration, and every handler a Callback invokes is the one that
\* registration stored.
C4_DuplicateRegistrationRejected == []C4_State /\ [][C4_Step]_vars

\* A second registration of f was rejected, the first one's handler is stored,
\* and a Callback of a later request has invoked it.
C4_Witness ==
    \E k1, k2 \in Keys :
       /\ k1 < k2
       /\ calls[k1].type = "function" /\ calls[k2].type = "function"
       /\ calls[k1].name = calls[k2].name
       /\ Emitted("success", k1) # {}
       /\ Emitted("error", k2) # {}
       /\ k2 \notin raised
       /\ outcome[k2] = "rejected"
       /\ userCallbacks[calls[k1].name] = k1
       /\ \E i \in 1..Len(handlerLog) : handlerLog[i].h = k1 /\ handlerLog[i].args > k2

C5_Step ==
    isDestroyed =>
       /\ isDestroyed'
       /\ nextKey' = nextKey
       /\ calls' = calls
       /\ toProc' = toProc
       /\ queriesInProgress' = queriesInProgress
       /\ (Sql \/ Transaction \/ CreateCallbackFunction \/ Destroy) =>
             /\ destroyedErrors' = destroyedErrors + 1
             /\ queuedMessages' = queuedMessages
             /\ dispatched' = dispatched
             /\ emitted' = emitted
             /\ outcome' = outcome

\* C5: once isDestroyed is set it stays set, and a call of sql, transaction,
\* createCallbackFunction or destroy only raises the client-destroyed error: no
\* key is drawn, no message reaches the Processor, no PendingRequest is added.
C5_DestroyedClientRefusesCalls == [][C5_Step]_vars

\* destroy() has completed and a later call was refused.
C5_Witness == isDestroyed /\ destroyedErrors > 0

\* C6: for a Query or Transaction sent after the handler of f was stored, each
\* invocation of f by the engine emitted one Callback with the arguments, and
\* each such Callback invokes the handler once: none is left where the Facade
\* no longer listens, none is handled without a call of the handler.
C6_CallbackInvokesHandlerOnce ==
    \A k \in Keys :
       (calls[k].type \in {"query", "transaction"} /\ \E n \in FnNames : handlerAtSend[k][n] # 0)
          => /\ CallbacksFor(emitted, k) = invoked[k]
             /\ HandlerCalls(k) + CallbacksFor(toClient, k) = invoked[k]
             /\ terminated => CallbacksFor(toClient, k) = 0

\* C7: requests are dispatched in the order the Facade sent them, and their
\* terminal messages are emitted in that order.
C7_SendOrderKept ==
    /\ \A i, j \in 1..Len(dispatched) : i < j => dispatched[i] < dispatched[j]
    /\ \A i, j \in 1..Len(emitted) :
          (i < j /\ emitted[i].type \in Terminal /\ emitted[j].type \in Terminal
                 /\ emitted[i].key # 0 /\ emitted[j].key # 0)
             => emitted[i].key < emitted[j].key

\* C8: when destroy() has completed the correlation map is empty, and every
\* request it cleared is still neither resolved nor rejected.
C8_PendingRequestsAbandoned ==
    /\ isDestroyed => queriesInProgress = {}
    /\ \A k \in abandoned : k \notin queriesInProgress /\ outcome[k] = "waiting"

\* destroy() has completed and cleared a request that was pending.
C8_Witness == isDestroyed /\ abandoned # {}

C9_State ==
    /\ Cardinality(Emitted("error", 0)) = Cardinality(failedSetups)
    /\ \A i \in 1..Len(unhandled) :
          unhandled[i] = 0 => Emitted("error", 0) # {}

C9_Step ==
    /\ failedSetups' # failedSetups => (db' = 0 /\ openConns' = {})
    /\ (Len(unhandled') > Len(unhandled) /\ unhandled'[Len(unhandled')] = 0)
          => (queriesInProgress' = queriesInProgress /\ outcome' = outcome)

\* C9: each failed setup emits one Error with a null key and leaves the
\* Processor without a connection; the Facade, handling that Error, raises it
\* and leaves every PendingRequest as it was.
C9_SetupFailure == []C9_State /\ [][C9_Step]_vars

C10_State ==
    /\ \A k \in Range(dispatched) : Cardinality(TerminalsFor(k)) <= 1
    /\ \A i \in 1..Len(emitted) :
          (emitted[i].type \in Terminal /\ emitted[i].key # 0)
             => emitted[i].key \in Range(dispatched)
    /\ \A k \in raised \cap Keys :
          /\ Emitted("error", k) # {}
          /\ Emitted("data", k) = {}
          /\ Emitted("success", k) = {}
          /\ k \notin escaped

C10_Step == NewTerminalKeys \subseteq NewDispatched

\* C10: a dispatched request has at most one terminal message; the terminal
\* messages a step emits carry the keys of the requests that step dispatched;
\* a request during whose dispatch the engine threw has an Error with its key
\* and neither Data nor Success, and no exception leaves its handler; no
\* terminal message carries a key that was not dispatched.
C10_OneTerminalPerDispatch == []C10_State /\ [][C10_Step]_vars

\* The while loop of flushQueue is synchronous code: once entered it keeps
\* taking messages from the buffer.
FairInProcessSpec == InProcessSpec /\ WF_vars(FlushStep)

\* The Processor has received request k: it buffered or dispatched it.
Received(k) == k \in buffered \/ k \in Range(dispatched)

\* A Destroy the Processor received before request k.
DestroyBefore(k) ==
    \E d \in Keys : d < k /\ calls[d].type = "destroy" /\ Received(d)

\* C11: a request the Processor has received, with no Destroy received before
\* it, is answered with a terminal message carrying its key once the setup of
\* a valid Config has opened the connection the Processor holds, whether the
\* request was buffered before that or arrived after.
C11_RequestEventuallyAnswered ==
    \A k \in Keys :
       (Received(k) /\ ~DestroyBefore(k) /\ db # 0) ~> (TerminalsFor(k) # {})

\* C12: draining the buffer takes each message once: no message that
\* flushQueue took from the buffer is pushed back on it, so the loop ends with
\* the buffer empty, whatever Query, Transaction, RegisterFunction and Destroy
\* messages the buffer held.
C12_DrainTakesEachMessageOnce ==
    /\ requeued = {}
    /\ (ready /\ ~flushing) => queuedMessages = <<>>

\* The Processor has handled a Destroy.
ProcessorDestroyed == \E d \in Range(dispatched) : calls[d].type = "destroy"

\* C13: once the Processor has handled a Destroy it holds no connection and
\* has none open, and after the Success of that Destroy it emits nothing that
\* a statement or a registration produces: only the Error of a failed setup.
C13_InertAfterDestroy ==
    /\ ProcessorDestroyed => (db = 0 /\ openConns = {})
    /\ \A i, j \in 1..Len(emitted) :
          (i < j /\ emitted[i].type = "success" /\ emitted[i].key # 0
                 /\ calls[emitted[i].key].type = "destroy")
             => (emitted[j].type = "error" /\ emitted[j].key = 0)

\* C14: when the Processor holds a connection and no setup awaits the engine
\* module, the connection is the one opened with the settings of the Config
\* received last, and no connection of an earlier Config is still open.
C14_ConnectionOfLatestConfig ==
    (db # 0 /\ pendingInits = {} /\ config.valid) =>
       (db = config.cfg /\ openConns = {db})

\* C15: the Processor handles one message to completion before the next: no
\* request is dispatched while the engine call of another dispatch is still in
\* progress.
C15_OneDispatchAtATime == nested = {}

\* The place of the terminal message of key k in the log of emitted messages.
TerminalPos(k) == CHOOSE i \in TerminalsFor(k) : TRUE

C16_State ==
    \A d \in Range(dispatched) :
       calls[d].type = "destroy" =>
          /\ Emitted("success", d) # {}
          /\ \A k \in buffered :
                (d \in buffered /\ k < d)
                   => (k \in Range(dispatched) /\ Pos(dispatched, k) < Pos(dispatched, d))
          /\ \A k \in Keys :
                (k < d /\ Received(k))
                   => (TerminalsFor(k) # {} /\ TerminalPos(k) < TerminalPos(d))

C16_Step ==
    \A d \in NewDispatched :
       calls'[d].type = "destroy" =>
          /\ db' = 0
          /\ openConns' = {}
          /\ emitted'[Len(emitted')] = OutputMessage("success", d)

\* C16: a Destroy that was buffered is dispatched after every message buffered
\* before it; every request the Processor received before a Destroy has its
\* terminal message emitted before the Destroy's Success; the dispatch of a
\* Destroy closes the connection and emits Success with the Destroy's key.
C16_DestroyAfterEarlierRequests == []C16_State /\ [][C16_Step]_vars

C17_State == ready => attached = userFunctions

C17_Step == NewDispatched # {} => attached = userFunctions

\* C17: a setup that ran to its end has re-created every function of the
\* registry on the new connection before the buffer is drained, and whenever
\* a message is dispatched the functions created on the connection are exactly
\* those of the registry.
C17_RegistryAttachedToConnection == []C17_State /\ [][C17_Step]_vars

\* C18: the Processor has at most one open connection, its current one:
\* every other connection it opened has been closed.
C18_AtMostOneOpenConnection ==
    /\ Cardinality(openConns) <= 1
    /\ openConns = IF db = 0 THEN {} ELSE {db}

\* The connection of the first Config was opened and has been replaced by the
\* connection of the second, which is the only one open.
C18_Witness ==
    db = 2 /\ openConns = {2} /\ pendingInits = {} /\ failedSetups = {} /\ sqlite3

C19_State ==
    /\ \A k \in retained :
          /\ k \notin requeued
          /\ (TerminalsFor(k) # {} \/ k \in Range(dispatched)) =>
                (TerminalsFor(k) # {} /\ k \in Range(dispatched))
    /\ \A i, j \in retained :
          (i < j /\ j \in Range(dispatched))
             => (i \in Range(dispatched) /\ Pos(dispatched, i) < Pos(dispatched, j))

C19_Step ==
    failedSetups' # failedSetups =>
       /\ queuedMessages' = queuedMessages
       /\ dispatched' = dispatched
       /\ NewTerminalKeys = {}

\* C19: a setup that fails leaves the buffer as it was and dispatches and
\* answers nothing; the messages that were in the buffer then are dispatched
\* by the drain of a later successful setup (none is pushed back on the
\* buffer), in their arrival order, and are answered only by their dispatch.
C19_BufferKeptAcrossFailedSetup == []C19_State /\ [][C19_Step]_vars

\* C20: every Callback caused by a function invocation during the dispatch of
\* a request is emitted before that request's terminal message; and when the
\* call of a request that was sent with a handler registered has settled, the
\* handler has been invoked for each invocation of that dispatch.
C20_CallbackBeforeTerminal ==
    \A k \in Keys :
       /\ \A i \in 1..Len(emitted) :
             (emitted[i].type = "callback" /\ emitted[i].args = k)
                => (TerminalsFor(k) # {} /\ i < TerminalPos(k))
       /\ CallbacksFor(emitted, k) = invoked[k]
       /\ (outcome[k] \in {"resolved", "rejected"} /\ \E n \in FnNames : handlerAtSend[k][n] # 0)
             => HandlerCalls(k) = invoked[k]

\* A request whose statement invoked a function has resolved, and the caller's
\* handler was invoked for it.
C20_Witness ==
    \E k \in Keys : invoked[k] > 0 /\ outcome[k] = "resolved" /\ HandlerCalls(k) = invoked[k]

====
